---- MODULE Spec2Model ----
(***************************************************************************)
(* A model of j5's Arduino hardware backend                                *)
(* (src/j5/backends/hardware/j5/arduino.py): the cached table of digital   *)
(* pins, the GPIO and LED handlers that validate against it, and the       *)
(* transport calls they make.                                              *)
(***************************************************************************)
EXTENDS Integers, Sequences, FiniteSets, TLC

(***************************************************************************)
(* Bounds of the model.  The handlers are called with the NumLowPinArgs    *)
(* pin identifiers that end at the first keyed pin (the ones before it are *)
(* below every key of the table), the LED pin, and the first               *)
(* NumAnalogueArgs analogue pins; the table itself always has the keys the *)
(* constructor gives it.                                                   *)
(***************************************************************************)
NumLowPinArgs == 2

NumAnalogueArgs == 1

MaxReading == 1

(***************************************************************************)
(* Program constants.                                                      *)
(***************************************************************************)
FIRST_ANALOGUE_PIN == 14

FIRST_DIGITAL_PIN == 2

LED_PIN == 13

GPIOPinMode ==
    { "DIGITAL_INPUT", "DIGITAL_INPUT_PULLUP", "DIGITAL_OUTPUT", "ANALOGUE_INPUT" }

digital_pin_modes == { "DIGITAL_INPUT", "DIGITAL_INPUT_PULLUP", "DIGITAL_OUTPUT" }

(***************************************************************************)
(* Values passed to and returned by the handlers, tagged by their type.    *)
(***************************************************************************)
None == [tag |-> "none", b |-> FALSE, m |-> "", f |-> 0]

Bool(b) == [tag |-> "bool", b |-> b, m |-> "", f |-> 0]

Mode(m) == [tag |-> "mode", b |-> FALSE, m |-> m, f |-> 0]

Float(f) == [tag |-> "float", b |-> FALSE, m |-> "", f |-> f]

(***************************************************************************)
(* What one call did on the transport: nothing, a push of one pin's cached *)
(* mode and state, or a live read.  done is FALSE when the round trip      *)
(* timed out; answer is what the transport answered to a live read.        *)
(***************************************************************************)
NoTransport ==
    [op |-> "none", pin |-> 0, mode |-> "", state |-> FALSE, done |-> FALSE,
     answer |-> None]

Push(pins, identifier, done) ==
    [op |-> "update", pin |-> identifier, mode |-> pins[identifier].mode,
     state |-> pins[identifier].state, done |-> done, answer |-> None]

LiveRead(op, identifier, answer, done) ==
    [op |-> op, pin |-> identifier, mode |-> "", state |-> FALSE, done |-> done,
     answer |-> IF done THEN answer ELSE None]

(***************************************************************************)
(* The outcome of a handler: the pin table it leaves, the exception class  *)
(* it raised ("ok" when it returned), the value returned and the transport *)
(* activity.                                                               *)
(***************************************************************************)
Return(pins, ret, tx) == [pins |-> pins, kind |-> "ok", ret |-> ret, tx |-> tx]

Raise(pins, kind, tx) == [pins |-> pins, kind |-> kind, ret |-> None, tx |-> tx]

DigitalPinData(mode, state) == [mode |-> mode, state |-> state]

NewDigitalPins ==
    [i \in FIRST_DIGITAL_PIN .. (FIRST_ANALOGUE_PIN - 1) |->
        DigitalPinData("DIGITAL_INPUT", FALSE)]

(***************************************************************************)
(* The transport calls of the backend.  They are abstract in the base      *)
(* class; a concrete backend sends the pin's cached mode and state, or     *)
(* asks for a live value, and raises CommunicationError on a timeout.      *)
(***************************************************************************)
update_digital_pin(pins, identifier, done) ==
    IF done
    THEN Return(pins, None, Push(pins, identifier, TRUE))
    ELSE Raise(pins, "CommunicationError", Push(pins, identifier, FALSE))

read_digital_pin(pins, identifier, level, done) ==
    IF done
    THEN Return(pins, Bool(level), LiveRead("read_digital", identifier, Bool(level), TRUE))
    ELSE Raise(pins, "CommunicationError",
               LiveRead("read_digital", identifier, Bool(level), FALSE))

read_analogue_pin(pins, identifier, reading, done) ==
    IF done
    THEN Return(pins, Float(reading),
                LiveRead("read_analogue", identifier, Float(reading), TRUE))
    ELSE Raise(pins, "CommunicationError",
               LiveRead("read_analogue", identifier, Float(reading), FALSE))

(***************************************************************************)
(* self._digital_pins[identifier]: a dict lookup, KeyError on a missing    *)
(* key.                                                                    *)
(***************************************************************************)
HasKey(pins, identifier) == identifier \in DOMAIN pins

(***************************************************************************)
(* The GPIO handlers.                                                      *)
(***************************************************************************)
(* Mutant: the pin gets a new entry with the mode, its state is lost. *)
set_gpio_pin_mode_new_entry(pins, identifier, pin_mode, done) ==
    IF identifier < FIRST_ANALOGUE_PIN
    THEN IF pin_mode \in digital_pin_modes
         THEN IF ~HasKey(pins, identifier)
              THEN Raise(pins, "KeyError", NoTransport)
              ELSE update_digital_pin(
                       [pins EXCEPT ![identifier] = DigitalPinData(pin_mode, FALSE)],
                       identifier, done)
         ELSE Raise(pins, "NotSupportedByHardwareError", NoTransport)
    ELSE IF pin_mode = "ANALOGUE_INPUT"
         THEN Return(pins, None, NoTransport)
         ELSE Raise(pins, "NotSupportedByHardwareError", NoTransport)

set_gpio_pin_mode(pins, identifier, pin_mode, done) ==
    IF identifier < FIRST_ANALOGUE_PIN
    THEN IF pin_mode \in digital_pin_modes
         THEN IF ~HasKey(pins, identifier)
              THEN Raise(pins, "KeyError", NoTransport)
              ELSE update_digital_pin(
                       [pins EXCEPT ![identifier].mode = pin_mode], identifier, done)
         ELSE Raise(pins, "NotSupportedByHardwareError", NoTransport)
    ELSE IF pin_mode = "ANALOGUE_INPUT"
         THEN Return(pins, None, NoTransport)
         ELSE Raise(pins, "NotSupportedByHardwareError", NoTransport)

get_gpio_pin_mode(pins, identifier) ==
    IF identifier < FIRST_ANALOGUE_PIN
    THEN IF ~HasKey(pins, identifier)
         THEN Raise(pins, "KeyError", NoTransport)
         ELSE Return(pins, Mode(pins[identifier].mode), NoTransport)
    ELSE Return(pins, Mode("ANALOGUE_INPUT"), NoTransport)


(* Mutant: the state is pushed but never stored in the table. *)
write_gpio_pin_digital_state_no_store(pins, identifier, state, done) ==
    IF identifier >= FIRST_ANALOGUE_PIN
    THEN Raise(pins, "NotSupportedByHardwareError", NoTransport)
    ELSE IF ~HasKey(pins, identifier)
    THEN Raise(pins, "KeyError", NoTransport)
    ELSE IF pins[identifier].mode # "DIGITAL_OUTPUT"
    THEN Raise(pins, "ValueError", NoTransport)
    ELSE update_digital_pin(pins, identifier, done)

(* Mutant: the mode of the pin is not checked. *)
write_gpio_pin_digital_state_unchecked(pins, identifier, state, done) ==
    IF identifier >= FIRST_ANALOGUE_PIN
    THEN Raise(pins, "NotSupportedByHardwareError", NoTransport)
    ELSE IF ~HasKey(pins, identifier)
    THEN Raise(pins, "KeyError", NoTransport)
    ELSE update_digital_pin(
             [pins EXCEPT ![identifier].state = state], identifier, done)

write_gpio_pin_digital_state(pins, identifier, state, done) ==
    IF identifier >= FIRST_ANALOGUE_PIN
    THEN Raise(pins, "NotSupportedByHardwareError", NoTransport)
    ELSE IF ~HasKey(pins, identifier)
    THEN Raise(pins, "KeyError", NoTransport)
    ELSE IF pins[identifier].mode # "DIGITAL_OUTPUT"
    THEN Raise(pins, "ValueError", NoTransport)
    ELSE update_digital_pin(
             [pins EXCEPT ![identifier].state = state], identifier, done)

get_gpio_pin_digital_state(pins, identifier) ==
    IF identifier >= FIRST_ANALOGUE_PIN
    THEN Raise(pins, "NotSupportedByHardwareError", NoTransport)
    ELSE IF ~HasKey(pins, identifier)
    THEN Raise(pins, "KeyError", NoTransport)
    ELSE IF pins[identifier].mode # "DIGITAL_OUTPUT"
    THEN Raise(pins, "ValueError", NoTransport)
    ELSE Return(pins, Bool(pins[identifier].state), NoTransport)


(* Mutant: the cached state is returned instead of a live read. *)
read_gpio_pin_digital_state_cached(pins, identifier, level, done) ==
    IF identifier >= FIRST_ANALOGUE_PIN
    THEN Raise(pins, "NotSupportedByHardwareError", NoTransport)
    ELSE IF ~HasKey(pins, identifier)
    THEN Raise(pins, "KeyError", NoTransport)
    ELSE IF pins[identifier].mode \notin {"DIGITAL_INPUT", "DIGITAL_INPUT_PULLUP"}
    THEN Raise(pins, "ValueError", NoTransport)
    ELSE Return(pins, Bool(pins[identifier].state), NoTransport)

read_gpio_pin_digital_state(pins, identifier, level, done) ==
    IF identifier >= FIRST_ANALOGUE_PIN
    THEN Raise(pins, "NotSupportedByHardwareError", NoTransport)
    ELSE IF ~HasKey(pins, identifier)
    THEN Raise(pins, "KeyError", NoTransport)
    ELSE IF pins[identifier].mode \notin {"DIGITAL_INPUT", "DIGITAL_INPUT_PULLUP"}
    THEN Raise(pins, "ValueError", NoTransport)
    ELSE read_digital_pin(pins, identifier, level, done)


(* Mutant: the boundary test is off by one. *)
read_gpio_pin_analogue_value_off_by_one(pins, identifier, reading, done) ==
    IF identifier < FIRST_ANALOGUE_PIN - 1
    THEN Raise(pins, "NotSupportedByHardwareError", NoTransport)
    ELSE read_analogue_pin(pins, identifier, reading, done)

read_gpio_pin_analogue_value(pins, identifier, reading, done) ==
    IF identifier < FIRST_ANALOGUE_PIN
    THEN Raise(pins, "NotSupportedByHardwareError", NoTransport)
    ELSE read_analogue_pin(pins, identifier, reading, done)

(***************************************************************************)
(* The LED handlers.                                                       *)
(***************************************************************************)

(* Mutant: the LED is looked up on the wrong pin. *)
get_led_state_wrong_pin(pins, identifier) ==
    IF identifier # 0
    THEN Raise(pins, "ValueError", NoTransport)
    ELSE get_gpio_pin_digital_state(pins, FIRST_DIGITAL_PIN)

get_led_state(pins, identifier) ==
    IF identifier # 0
    THEN Raise(pins, "ValueError", NoTransport)
    ELSE get_gpio_pin_digital_state(pins, LED_PIN)

set_led_state(pins, identifier, state, done) ==
    IF identifier # 0
    THEN Raise(pins, "ValueError", NoTransport)
    ELSE write_gpio_pin_digital_state(pins, LED_PIN, state, done)

(***************************************************************************)
(* State of one backend driven by one caller.  digital_pins is the         *)
(* backend's table; last is the most recent call with its outcome.  The    *)
(* remaining variables are history of the calls made on one watched pin:   *)
(* written is whether and how write_gpio_pin_digital_state last assigned   *)
(* its cached state (status "ok": the call returned, and no                *)
(* set_gpio_pin_mode on the pin followed; between: a call has changed      *)
(* another pin since), mode_set the mode of the last set_gpio_pin_mode on  *)
(* it that returned, pushed_ok the payload of the last push of it that     *)
(* completed; history names the one of them a behaviour keeps ("none" if   *)
(* it keeps none).                                                         *)
(***************************************************************************)
VARIABLES digital_pins, last, history, watched, written, mode_set, pushed_ok

(***************************************************************************)
(* State of several backends called from several threads: the table of     *)
(* each backend, the holder of each lock (0 when free) and, per thread,    *)
(* the call it is in and how far it has got.                               *)
(***************************************************************************)
VARIABLES backend_pins, locks, threads

(***************************************************************************)
(* State of a board group: the port descriptors the enumerator returned to *)
(* the last discovery, the set of boards discover returned, the group's    *)
(* mapping from serial number to board, the number of discoveries made and *)
(* the last query on the group with its outcome, and a board the caller    *)
(* got from a lookup and still holds a reference to.                       *)
(***************************************************************************)
VARIABLES scanned, discovered, boards, generation, asked, held

(***************************************************************************)
(* The iterators obtained from the group: for each, whether it was         *)
(* obtained, the boards it goes through and how many of them it yielded.   *)
(***************************************************************************)
VARIABLES cursors

(***************************************************************************)
(* A make_safe() of the group in progress: the boards still to attempt,    *)
(* how often the safety operation was invoked on each board and the boards *)
(* it failed on.                                                           *)
(***************************************************************************)
VARIABLES safety

(***************************************************************************)
(* The board groups that get_board_group has returned, in the order of the *)
(* calls, and the last call on one of them with the number of discoveries  *)
(* run so far.                                                             *)
(***************************************************************************)
VARIABLES registry, got

caller_vars == <<digital_pins, last, history, watched, written, mode_set, pushed_ok>>

thread_vars == <<backend_pins, locks, threads>>

(* What no query on the group assigns. *)
mapping_vars == <<scanned, discovered, boards, generation>>

(* What the operations on the mapping leave alone. *)
get_vars == <<registry, got>>

ext_vars == <<cursors, safety, get_vars>>

group_vars == <<mapping_vars, asked, held, ext_vars>>

vars == <<caller_vars, thread_vars, group_vars>>

LowPinArgs == (FIRST_DIGITAL_PIN + 1 - NumLowPinArgs) .. FIRST_DIGITAL_PIN

AnaloguePinArgs == FIRST_ANALOGUE_PIN .. (FIRST_ANALOGUE_PIN + NumAnalogueArgs - 1)

PinArgs == LowPinArgs \cup {LED_PIN} \cup AnaloguePinArgs

LedArgs == {0, 1}

Readings == 0 .. MaxReading

(* The pins a history is kept of: the first key of the table and the LED's pin. *)
WatchedPins == {FIRST_DIGITAL_PIN, LED_PIN}

(***************************************************************************)
(* The pin an LED call acts on (none for an unknown LED).                  *)
(***************************************************************************)
TargetPin(op, identifier) ==
    IF op \in {"get_led_state", "set_led_state"}
    THEN IF identifier = 0 THEN LED_PIN ELSE -1
    ELSE identifier

Written(op, identifier, arg, r) ==
    IF history # "written"
    THEN written
    ELSE IF /\ op \in {"write_gpio_pin_digital_state", "set_led_state"}
       /\ TargetPin(op, identifier) = watched
       /\ r.tx.op = "update"
    THEN IF r.kind = "ok"
         THEN [status |-> "ok", value |-> arg.b, between |-> FALSE]
         ELSE [status |-> "failed", value |-> FALSE, between |-> FALSE]
    ELSE IF /\ op = "set_gpio_pin_mode"
            /\ identifier = watched
            /\ written.status = "ok"
    THEN [status |-> "stale", value |-> FALSE, between |-> FALSE]
    ELSE IF /\ written.status = "ok"
            /\ TargetPin(op, identifier) # watched
            /\ r.pins # digital_pins
    THEN [written EXCEPT !.between = TRUE]
    ELSE written

ModeSet(op, identifier, arg, r) ==
    IF history = "mode_set" /\ op = "set_gpio_pin_mode" /\ identifier = watched /\ r.kind = "ok"
    THEN arg.m
    ELSE mode_set

PushedOk(r) ==
    IF history = "pushed_ok" /\ r.tx.op = "update" /\ r.tx.pin = watched /\ r.tx.done
    THEN DigitalPinData(r.tx.mode, r.tx.state)
    ELSE pushed_ok

(***************************************************************************)
(* Threads and backends: NumThreads threads calling two backend instances. *)
(* Every backend instance has a lock of its own.                           *)
(***************************************************************************)
NumThreads == 2

Threads == 1 .. NumThreads

Backends == {1, 2}

(* Mutant: the lock is an attribute of the class, shared by all instances. *)
LockOf_shared(backend) == 1

LockOf(backend) == backend

Locks == { LockOf(b) : b \in Backends }

Idle == [pc |-> "idle", op |-> "", backend |-> 0, identifier |-> 0, arg |-> None]

InCall(pc, op, backend, identifier, arg) ==
    [pc |-> pc, op |-> op, backend |-> backend, identifier |-> identifier,
     arg |-> arg]

ThreadsAtRest ==
    /\ backend_pins = [b \in Backends |-> NewDigitalPins]
    /\ locks = [l \in Locks |-> 0]
    /\ threads = [t \in Threads |-> Idle]

(***************************************************************************)
(* Port descriptors, boards and the board group.                           *)
(***************************************************************************)
MaxPorts == 2

MaxDiscoveries == 2

MaxGroups == 2

USB_IDS == { <<9025, 67>>, <<10755, 67>>, <<6790, 29987>>, <<4292, 60000>> }

(* Python values used as serial numbers and as keys of a lookup. *)
Str(s) == [type |-> "str", s |-> s]

PyInt(s) == [type |-> "int", s |-> s]

PyNone == [type |-> "NoneType", s |-> ""]

PyDict == [type |-> "dict", s |-> "{}"]

(* The identities and serial numbers the enumerator's ports carry: one     *)
(* known identity and one that shares its vendor with a known identity and *)
(* its product with another; two serial numbers and an absent one.         *)
UsbIdArgs == { <<9025, 67>>, <<9025, 60000>> }

SerialArgs == { Str("A"), Str("B"), PyNone }

ListPortInfo(device, usb_id, serial_number) ==
    [vid |-> usb_id[1], pid |-> usb_id[2], device |-> device,
     serial_number |-> serial_number]

(* A port of a known identity carries any of the serial numbers; for the   *)
(* port of another identity one serial number, which a port of a known     *)
(* identity can carry too, is enough.                                      *)
PortArgs ==
    { a \in UsbIdArgs \X SerialArgs : a[1] \in USB_IDS \/ a[2] = Str("A") }

PortLists ==
    UNION { { [i \in 1 .. n |-> ListPortInfo(i, f[i][1], f[i][2])] :
                f \in [1 .. n -> PortArgs] } : n \in 0 .. MaxPorts }

NoBoard == [serial |-> PyNone, serial_port |-> 0, object |-> <<0, 0>>]

NoQuery == [op |-> "none", key |-> PyNone, kind |-> "ok", board |-> NoBoard, n |-> 0]

NoBoards == [serial \in {} |-> NoBoard]

(* The two iterators of the simultaneous iteration. *)
Iterators == {1, 2}

NoCursor == [open |-> FALSE, items |-> << >>, pos |-> 0]

NoSafety == [running |-> FALSE, todo |-> {}, attempts |-> << >>, failed |-> {}]

NoCall == [op |-> "none", pair |-> << >>, index |-> 0, runs |-> 0]

ExtAtRest ==
    /\ cursors = [c \in Iterators |-> NoCursor]
    /\ safety = NoSafety
    /\ registry = << >>
    /\ got = NoCall

GroupAtRest ==
    /\ scanned = << >>
    /\ discovered = {}
    /\ boards = NoBoards
    /\ generation = 0
    /\ asked = NoQuery
    /\ held = NoBoard
    /\ ExtAtRest

(***************************************************************************)
(* One call: the handler's outcome becomes the state.                      *)
(***************************************************************************)
Call(op, identifier, arg, r) ==
    /\ digital_pins' = r.pins
    /\ last' = [op |-> op, identifier |-> identifier, arg |-> arg,
                kind |-> r.kind, ret |-> r.ret, tx |-> r.tx]
    /\ written' = Written(op, identifier, arg, r)
    /\ mode_set' = ModeSet(op, identifier, arg, r)
    /\ pushed_ok' = PushedOk(r)
    /\ UNCHANGED <<history, watched, thread_vars, group_vars>>

(***************************************************************************)
(* What the transport can answer to a call: only a call that reaches the   *)
(* transport (r is its outcome when the round trip completes) can time     *)
(* out or see a live value.                                                *)
(***************************************************************************)
Completions(r) == IF r.tx.op = "none" THEN {TRUE} ELSE BOOLEAN

Levels(r) == IF r.tx.op = "none" THEN {FALSE} ELSE BOOLEAN

LiveReadings(r) == IF r.tx.op = "none" THEN {0} ELSE Readings

Start(kept, pins) ==
    /\ digital_pins = NewDigitalPins
    /\ last = [op |-> "__init__", identifier |-> 0, arg |-> None,
               kind |-> "ok", ret |-> None, tx |-> NoTransport]
    /\ history = kept
    /\ watched \in pins
    /\ written = [status |-> "never", value |-> FALSE, between |-> FALSE]
    /\ mode_set = "DIGITAL_INPUT"
    /\ pushed_ok = DigitalPinData("DIGITAL_INPUT", FALSE)
    /\ ThreadsAtRest
    /\ GroupAtRest

Init == Start("none", {LED_PIN})

InitWritten == Start("written", WatchedPins)

InitModeSet == Start("mode_set", WatchedPins)

InitPushed == Start("pushed_ok", WatchedPins)

SetGpioPinMode ==
    \E identifier \in PinArgs, pin_mode \in GPIOPinMode :
      \E done \in Completions(set_gpio_pin_mode(digital_pins, identifier, pin_mode, TRUE)) :
        Call("set_gpio_pin_mode", identifier, Mode(pin_mode),
             set_gpio_pin_mode(digital_pins, identifier, pin_mode, done))

GetGpioPinMode ==
    \E identifier \in PinArgs :
        Call("get_gpio_pin_mode", identifier, None,
             get_gpio_pin_mode(digital_pins, identifier))

WriteGpioPinDigitalState ==
    \E identifier \in PinArgs, state \in BOOLEAN :
      \E done \in Completions(write_gpio_pin_digital_state(digital_pins, identifier, state, TRUE)) :
        Call("write_gpio_pin_digital_state", identifier, Bool(state),
             write_gpio_pin_digital_state(digital_pins, identifier, state, done))

GetGpioPinDigitalState ==
    \E identifier \in PinArgs :
        Call("get_gpio_pin_digital_state", identifier, None,
             get_gpio_pin_digital_state(digital_pins, identifier))

ReadGpioPinDigitalState ==
    \E identifier \in PinArgs :
      \E level \in Levels(read_gpio_pin_digital_state(digital_pins, identifier, FALSE, TRUE)),
         done \in Completions(read_gpio_pin_digital_state(digital_pins, identifier, FALSE, TRUE)) :
        Call("read_gpio_pin_digital_state", identifier, None,
             read_gpio_pin_digital_state(digital_pins, identifier, level, done))

ReadGpioPinAnalogueValue ==
    \E identifier \in PinArgs :
      \E reading \in LiveReadings(read_gpio_pin_analogue_value(digital_pins, identifier, 0, TRUE)),
         done \in Completions(read_gpio_pin_analogue_value(digital_pins, identifier, 0, TRUE)) :
        Call("read_gpio_pin_analogue_value", identifier, None,
             read_gpio_pin_analogue_value(digital_pins, identifier, reading, done))

GetLedState ==
    \E identifier \in LedArgs :
        Call("get_led_state", identifier, None,
             get_led_state(digital_pins, identifier))

SetLedState ==
    \E identifier \in LedArgs, state \in BOOLEAN :
      \E done \in Completions(set_led_state(digital_pins, identifier, state, TRUE)) :
        Call("set_led_state", identifier, Bool(state),
             set_led_state(digital_pins, identifier, state, done))

Next ==
    \/ SetGpioPinMode
    \/ GetGpioPinMode
    \/ WriteGpioPinDigitalState
    \/ GetGpioPinDigitalState
    \/ ReadGpioPinDigitalState
    \/ ReadGpioPinAnalogueValue
    \/ GetLedState
    \/ SetLedState

Spec == Init /\ [][Next]_vars

SpecWritten == InitWritten /\ [][Next]_vars

SpecModeSet == InitModeSet /\ [][Next]_vars

SpecPushed == InitPushed /\ [][Next]_vars

(***************************************************************************)
(* Several threads calling the transport-touching handlers.  A handler     *)
(* runs statement by statement: its validation, its assignment to the      *)
(* table, then the transport call, which takes the backend's lock, makes   *)
(* the round trip and gives the lock back.  A call that returns or raises  *)
(* in its validation leaves the thread idle.                               *)
(***************************************************************************)
ThreadPinArgs == {LED_PIN, FIRST_ANALOGUE_PIN}

Proceed(t, r, call) ==
    threads' = [threads EXCEPT ![t] = IF r.tx.op = "none" THEN Idle ELSE call]

CallSetGpioPinMode(t) ==
    /\ threads[t].pc = "idle"
    /\ \E b \in Backends, identifier \in ThreadPinArgs, pin_mode \in GPIOPinMode :
         LET r == set_gpio_pin_mode(backend_pins[b], identifier, pin_mode, TRUE) IN
         /\ backend_pins' = [backend_pins EXCEPT ![b] = r.pins]
         /\ Proceed(t, r, InCall("acquire", "set_gpio_pin_mode", b, identifier, None))
    /\ UNCHANGED <<locks, caller_vars, group_vars>>

CallWriteGpioPinDigitalState(t) ==
    /\ threads[t].pc = "idle"
    /\ \E b \in Backends, identifier \in ThreadPinArgs, state \in BOOLEAN :
         LET r == write_gpio_pin_digital_state(
                      backend_pins[b], identifier, state, TRUE) IN
         Proceed(t, r, InCall("store", "write_gpio_pin_digital_state", b,
                              identifier, Bool(state)))
    /\ UNCHANGED <<backend_pins, locks, caller_vars, group_vars>>

StoreDigitalState(t) ==
    /\ threads[t].pc = "store"
    /\ backend_pins' =
         [backend_pins EXCEPT
            ![threads[t].backend][threads[t].identifier].state = threads[t].arg.b]
    /\ threads' = [threads EXCEPT ![t].pc = "acquire", ![t].arg = None]
    /\ UNCHANGED <<locks, caller_vars, group_vars>>

CallReadGpioPinDigitalState(t) ==
    /\ threads[t].pc = "idle"
    /\ \E b \in Backends, identifier \in ThreadPinArgs :
         LET r == read_gpio_pin_digital_state(
                      backend_pins[b], identifier, FALSE, TRUE) IN
         Proceed(t, r, InCall("acquire", "read_gpio_pin_digital_state", b,
                              identifier, None))
    /\ UNCHANGED <<backend_pins, locks, caller_vars, group_vars>>

CallReadGpioPinAnalogueValue(t) ==
    /\ threads[t].pc = "idle"
    /\ \E b \in Backends, identifier \in ThreadPinArgs :
         LET r == read_gpio_pin_analogue_value(
                      backend_pins[b], identifier, 0, TRUE) IN
         Proceed(t, r, InCall("acquire", "read_gpio_pin_analogue_value", b,
                              identifier, None))
    /\ UNCHANGED <<backend_pins, locks, caller_vars, group_vars>>

AcquireAndSend(t) ==
    /\ threads[t].pc = "acquire"
    /\ locks[LockOf(threads[t].backend)] = 0
    /\ locks' = [locks EXCEPT ![LockOf(threads[t].backend)] = t]
    /\ threads' = [threads EXCEPT ![t].pc = "roundtrip"]
    /\ UNCHANGED <<backend_pins, caller_vars, group_vars>>

ReceiveAndRelease(t) ==
    /\ threads[t].pc = "roundtrip"
    /\ locks' = [locks EXCEPT ![LockOf(threads[t].backend)] = 0]
    /\ threads' = [threads EXCEPT ![t] = Idle]
    /\ UNCHANGED <<backend_pins, caller_vars, group_vars>>

NextThreads ==
    \E t \in Threads :
        \/ CallSetGpioPinMode(t)
        \/ CallWriteGpioPinDigitalState(t)
        \/ StoreDigitalState(t)
        \/ CallReadGpioPinDigitalState(t)
        \/ CallReadGpioPinAnalogueValue(t)
        \/ AcquireAndSend(t)
        \/ ReceiveAndRelease(t)

InitThreads == Start("none", {LED_PIN})

SpecThreads == InitThreads /\ [][NextThreads]_vars

(***************************************************************************)
(* Discovery and the board group.                                          *)
(***************************************************************************)
(* Mutant: only the vendor of the port is compared. *)
is_arduino_vendor_only(port) == port.vid \in { id[1] : id \in USB_IDS }

is_arduino(port) == <<port.vid, port.pid>> \in USB_IDS

(* Mutant: the board object made for a port is kept and handed out again   *)
(* by the discoveries that follow.                                         *)
NewBoard_reused(port, object) ==
    [serial |-> port.serial_number, serial_port |-> port.device,
     object |-> <<0, object[2]>>]

(* Mutant: the arguments are mixed up, the board is named after the device *)
(* of its port.                                                            *)
NewBoard_named_by_device(port, object) ==
    [serial |-> Str(ToString(port.device)), serial_port |-> port.device,
     object |-> object]

(* cls.board(port.serial_number, cls(port.device, serial_class)): a new    *)
(* board object with a new backend on the port's device.                   *)
NewBoard(port, object) ==
    [serial |-> port.serial_number, serial_port |-> port.device, object |-> object]

(* Boards are equal, and hash alike, when their serial numbers are equal.  *)
BoardEq(a, b) == a.serial = b.serial

SetAdd(set, board) ==
    IF \E other \in set : BoardEq(other, board) THEN set ELSE set \cup {board}

RECURSIVE DiscoverFrom(_, _, _, _)
DiscoverFrom(ports, gen, i, found) ==
    IF i > Len(ports)
    THEN found
    ELSE DiscoverFrom(ports, gen, i + 1,
                      IF is_arduino(ports[i])
                      THEN SetAdd(found, NewBoard(ports[i], <<gen, i>>))
                      ELSE found)

discover(ports, gen) == DiscoverFrom(ports, gen, 1, {})

(* The ports for which discover constructs a backend, cls(port.device,     *)
(* serial_class), and a board around it: every port the filter lets pass,  *)
(* before the set decides whether it keeps the board.                      *)
Constructed(ports) == { i \in 1 .. Len(ports) : is_arduino(ports[i]) }

(* The board group's operations. *)
update_boards(found) ==
    [serial \in { b.serial : b \in found } |->
        CHOOSE b \in found : b.serial = serial]

lookup_by_serial(group, key) ==
    IF key.type # "str"
    THEN [kind |-> "TypeError", board |-> NoBoard]
    ELSE IF key \notin DOMAIN group
    THEN [kind |-> "KeyError", board |-> NoBoard]
    ELSE [kind |-> "ok", board |-> group[key]]

length(group) == Cardinality(DOMAIN group)

singular(group) ==
    IF Cardinality(DOMAIN group) = 1
    THEN [kind |-> "ok", board |-> group[CHOOSE serial \in DOMAIN group : TRUE]]
    ELSE [kind |-> "CommunicationError", board |-> NoBoard]

contains(group, key) == key \in DOMAIN group

KeyArgs == SerialArgs \cup { Str("C"), Str(""), PyInt("0"), PyDict }

Discovered(ports, gen) ==
    /\ scanned = ports
    /\ discovered = discover(ports, gen)
    /\ boards = update_boards(discover(ports, gen))
    /\ generation = gen
    /\ asked = NoQuery
    /\ held = NoBoard
    /\ ExtAtRest

InitGroup ==
    /\ digital_pins = NewDigitalPins
    /\ last = [op |-> "__init__", identifier |-> 0, arg |-> None,
               kind |-> "ok", ret |-> None, tx |-> NoTransport]
    /\ history = "none"
    /\ watched = LED_PIN
    /\ written = [status |-> "never", value |-> FALSE, between |-> FALSE]
    /\ mode_set = "DIGITAL_INPUT"
    /\ pushed_ok = DigitalPinData("DIGITAL_INPUT", FALSE)
    /\ ThreadsAtRest
    /\ \E ports \in PortLists : Discovered(ports, 1)

UpdateBoards ==
    /\ generation < MaxDiscoveries
    /\ \E ports \in PortLists :
         /\ scanned' = ports
         /\ discovered' = discover(ports, generation + 1)
         /\ boards' = update_boards(discover(ports, generation + 1))
    /\ generation' = generation + 1
    /\ asked' = NoQuery
    /\ UNCHANGED <<held, ext_vars, caller_vars, thread_vars>>

LookupBySerial ==
    /\ \E key \in KeyArgs :
         asked' = [op |-> "lookup_by_serial", key |-> key,
                   kind |-> lookup_by_serial(boards, key).kind,
                   board |-> lookup_by_serial(boards, key).board, n |-> 0]
    /\ held' = IF asked'.kind = "ok" THEN asked'.board ELSE held
    /\ UNCHANGED <<mapping_vars, ext_vars, caller_vars, thread_vars>>

Length ==
    /\ asked' = [op |-> "length", key |-> PyNone, kind |-> "ok",
                 board |-> NoBoard, n |-> length(boards)]
    /\ UNCHANGED <<mapping_vars, held, ext_vars, caller_vars, thread_vars>>

Singular ==
    /\ asked' = [op |-> "singular", key |-> PyNone, kind |-> singular(boards).kind,
                 board |-> singular(boards).board, n |-> 0]
    /\ UNCHANGED <<mapping_vars, held, ext_vars, caller_vars, thread_vars>>

Contains ==
    /\ \E key \in KeyArgs :
         asked' = [op |-> "contains", key |-> key, kind |-> "ok", board |-> NoBoard,
                   n |-> IF contains(boards, key) THEN 1 ELSE 0]
    /\ UNCHANGED <<mapping_vars, held, ext_vars, caller_vars, thread_vars>>

(* The caller reads the serial number of the board it holds. *)
SerialOfHeld ==
    /\ held # NoBoard
    /\ asked' = [op |-> "serial", key |-> held.serial, kind |-> "ok",
                 board |-> held, n |-> 0]
    /\ UNCHANGED <<mapping_vars, held, ext_vars, caller_vars, thread_vars>>

NextGroup ==
    \/ UpdateBoards
    \/ LookupBySerial
    \/ Length
    \/ Singular
    \/ Contains
    \/ SerialOfHeld

SpecGroup == InitGroup /\ [][NextGroup]_vars

(***************************************************************************)
(* Iteration over the board group.                                         *)
(***************************************************************************)
(* The order of the serial numbers, as strings compare. *)
SerialOrder == <<"A", "B", "C">>

Rank(serial) == CHOOSE i \in 1 .. Len(SerialOrder) : SerialOrder[i] = serial.s

(* Sorting compares the serial numbers of two boards: an absent serial     *)
(* number does not compare with a string.                                  *)
Comparable(group) ==
    \/ Cardinality(DOMAIN group) <= 1
    \/ \A serial \in DOMAIN group : serial.type = "str"

RECURSIVE SortedFrom(_, _)
SortedFrom(group, keys) ==
    IF keys = {}
    THEN << >>
    ELSE IF Cardinality(keys) = 1
    THEN << group[CHOOSE k \in keys : TRUE] >>
    ELSE LET first == CHOOSE k \in keys : \A o \in keys : Rank(k) <= Rank(o) IN
         << group[first] >> \o SortedFrom(group, keys \ {first})

sorted_by_serial(group) == SortedFrom(group, DOMAIN group)

(* iter(group): a new cursor over a sorted copy of the boards. *)
iter(group) ==
    IF Comparable(group)
    THEN [kind |-> "ok",
          cursor |-> [open |-> TRUE, items |-> sorted_by_serial(group), pos |-> 0]]
    ELSE [kind |-> "TypeError", cursor |-> NoCursor]

(* Mutant: the position is kept in the group and shared by its iterators. *)
next_of_shared(all, c) ==
    IF all[c].pos < Len(all[c].items)
    THEN [kind |-> "ok", board |-> all[c].items[all[c].pos + 1],
          cursors |-> [d \in DOMAIN all |->
                         IF all[d].open THEN [all[d] EXCEPT !.pos = all[c].pos + 1]
                         ELSE all[d]]]
    ELSE [kind |-> "StopIteration", board |-> NoBoard, cursors |-> all]

(* next(cursor): the board at the cursor's position, and the cursor moved. *)
next_of(all, c) ==
    IF all[c].pos < Len(all[c].items)
    THEN [kind |-> "ok", board |-> all[c].items[all[c].pos + 1],
          cursors |-> [all EXCEPT ![c].pos = @ + 1]]
    ELSE [kind |-> "StopIteration", board |-> NoBoard, cursors |-> all]

Iter(c) ==
    /\ cursors' = IF iter(boards).kind = "ok"
                  THEN [cursors EXCEPT ![c] = iter(boards).cursor]
                  ELSE cursors
    /\ asked' = [op |-> "iter", key |-> PyNone, kind |-> iter(boards).kind,
                 board |-> NoBoard, n |-> c]
    /\ UNCHANGED <<mapping_vars, held, safety, get_vars, caller_vars, thread_vars>>

NextOf(c) ==
    /\ cursors[c].open
    /\ cursors' = next_of(cursors, c).cursors
    /\ asked' = [op |-> "next", key |-> PyNone, kind |-> next_of(cursors, c).kind,
                 board |-> next_of(cursors, c).board, n |-> c]
    /\ UNCHANGED <<mapping_vars, held, safety, get_vars, caller_vars, thread_vars>>

NextIter ==
    \E c \in Iterators :
        \/ Iter(c)
        \/ NextOf(c)

SpecIter == InitGroup /\ [][NextIter]_vars

(***************************************************************************)
(* make_safe() of the board group: the safety operation of every board is  *)
(* attempted, a failure is noted and the remaining boards are attempted    *)
(* all the same; the failures are reported when all were attempted.        *)
(***************************************************************************)
begin_make_safe(group) ==
    [running |-> TRUE, todo |-> DOMAIN group,
     attempts |-> [serial \in DOMAIN group |-> 0], failed |-> {}]

(* Mutant: the first failure ends the loop. *)
attempt_short_circuit(run, serial, fails) ==
    [run EXCEPT !.todo = IF fails THEN {} ELSE @ \ {serial},
                !.attempts[serial] = @ + 1,
                !.failed = IF fails THEN @ \cup {serial} ELSE @]

(* board.make_safe() on one board, which fails or not. *)
attempt(run, serial, fails) ==
    [run EXCEPT !.todo = @ \ {serial},
                !.attempts[serial] = @ + 1,
                !.failed = IF fails THEN @ \cup {serial} ELSE @]

MakeSafe ==
    /\ ~safety.running
    /\ safety' = begin_make_safe(boards)
    /\ asked' = [op |-> "make_safe", key |-> PyNone, kind |-> "running",
                 board |-> NoBoard, n |-> 0]
    /\ UNCHANGED <<mapping_vars, held, cursors, get_vars, caller_vars, thread_vars>>

MakeBoardSafe ==
    /\ safety.running
    /\ \E serial \in safety.todo, fails \in BOOLEAN :
         safety' = attempt(safety, serial, fails)
    /\ UNCHANGED <<mapping_vars, asked, held, cursors, get_vars, caller_vars, thread_vars>>

ReportMakeSafe ==
    /\ safety.running
    /\ safety.todo = {}
    /\ safety' = [safety EXCEPT !.running = FALSE]
    /\ asked' = [op |-> "make_safe", key |-> PyNone,
                 kind |-> IF safety.failed = {} THEN "ok" ELSE "failed",
                 board |-> NoBoard, n |-> Cardinality(safety.failed)]
    /\ UNCHANGED <<mapping_vars, held, cursors, get_vars, caller_vars, thread_vars>>

NextSafe ==
    \/ MakeSafe
    \/ MakeBoardSafe
    \/ ReportMakeSafe

SpecSafe == InitGroup /\ [][NextSafe]_vars

(***************************************************************************)
(* get_board_group(board_type, backend_class), as the tests use it: the    *)
(* group a call returns has the boards its backend class discovers at that *)
(* call, whatever was done to the group an earlier call returned for the   *)
(* same pair.  The ports of the machine are those of the first scan.       *)
(***************************************************************************)
BoardTypes == {"ArduinoUno"}

BackendClasses == {"ArduinoHardwareBackend", "NoBoardBackend"}

Pairs == BoardTypes \X BackendClasses

(* backend_class.discover(): a backend class that finds no board, or the   *)
(* Arduino backend on the ports of the machine.                            *)
discover_with(backend_class, ports, gen) ==
    IF backend_class = "ArduinoHardwareBackend" THEN discover(ports, gen) ELSE {}

(* BoardGroup(backend_class): the constructor runs the first discovery. *)
NewBoardGroup(pair, ports, gen) ==
    [pair |-> pair, backend_class |-> pair[2],
     boards |-> update_boards(discover_with(pair[2], ports, gen))]

(* Mutant: the group made for a pair is kept and returned again. *)
get_board_group_cached(groups, pair, ports, gen) ==
    IF \E i \in 1 .. Len(groups) : groups[i].pair = pair
    THEN [groups |-> groups,
          index |-> CHOOSE i \in 1 .. Len(groups) : groups[i].pair = pair,
          runs |-> gen - 1]
    ELSE [groups |-> Append(groups, NewBoardGroup(pair, ports, gen)),
          index |-> Len(groups) + 1, runs |-> gen]

get_board_group(groups, pair, ports, gen) ==
    [groups |-> Append(groups, NewBoardGroup(pair, ports, gen)),
     index |-> Len(groups) + 1, runs |-> gen]

GetBoardGroup ==
    /\ Len(registry) < MaxGroups
    /\ \E pair \in Pairs :
         LET r == get_board_group(registry, pair, scanned, got.runs + 1) IN
         /\ registry' = r.groups
         /\ got' = [op |-> "get_board_group", pair |-> pair, index |-> r.index,
                    runs |-> r.runs]
    /\ UNCHANGED <<mapping_vars, asked, held, cursors, safety, caller_vars, thread_vars>>

(* board_group._backend_class = backend_class, on a group returned before. *)
SetBackendClass ==
    /\ \E i \in 1 .. Len(registry), backend_class \in BackendClasses :
         /\ registry' = [registry EXCEPT ![i].backend_class = backend_class]
         /\ got' = [op |-> "set_backend_class", pair |-> registry[i].pair,
                    index |-> i, runs |-> got.runs]
    /\ UNCHANGED <<mapping_vars, asked, held, cursors, safety, caller_vars, thread_vars>>

(* board_group.update_boards(), on a group returned before. *)
UpdateGroup ==
    /\ got.runs < MaxGroups + 1
    /\ \E i \in 1 .. Len(registry) :
         /\ registry' =
              [registry EXCEPT ![i].boards =
                 update_boards(discover_with(registry[i].backend_class, scanned,
                                             got.runs + 1))]
         /\ got' = [op |-> "update_boards", pair |-> registry[i].pair,
                    index |-> i, runs |-> got.runs + 1]
    /\ UNCHANGED <<mapping_vars, asked, held, cursors, safety, caller_vars, thread_vars>>

NextGet ==
    \/ GetBoardGroup
    \/ SetBackendClass
    \/ UpdateGroup

SpecGet == InitGroup /\ [][NextGet]_vars

(***************************************************************************)
(* Properties.                                                             *)
(***************************************************************************)
DigitalStateOps ==
    { "write_gpio_pin_digital_state", "get_gpio_pin_digital_state",
      "read_gpio_pin_digital_state" }

LedOps == { "get_led_state", "set_led_state" }

ReadOnlyOps ==
    { "get_gpio_pin_mode", "get_gpio_pin_digital_state",
      "read_gpio_pin_digital_state", "read_gpio_pin_analogue_value",
      "get_led_state" }

(* The outcome of the call a step made, as the handlers give it. *)
Outcome == [pins |-> digital_pins', kind |-> last'.kind, ret |-> last'.ret,
            tx |-> last'.tx]

(* C1: the cached digital-state read of a pin returns the state of the     *)
(* last write_gpio_pin_digital_state on it that returned, as long as only  *)
(* other pins were operated on since; on a pin in DIGITAL_OUTPUT mode      *)
(* whose cached state was never written it returns false.                  *)
C1_CachedReadReturnsLastWrite ==
    (last.op = "get_gpio_pin_digital_state" /\ last.identifier = watched) =>
        /\ written.status = "ok" =>
               last.kind = "ok" /\ last.ret = Bool(written.value)
        /\ (written.status = "never"
              /\ digital_pins[watched].mode = "DIGITAL_OUTPUT") =>
               last.kind = "ok" /\ last.ret = Bool(FALSE)

(* C1 witness: a cached read returned true after a write of true, with     *)
(* another pin changed in between.                                         *)
C1_Witness ==
    /\ last.op = "get_gpio_pin_digital_state"
    /\ last.identifier = watched
    /\ written = [status |-> "ok", value |-> TRUE, between |-> TRUE]
    /\ last.ret = Bool(TRUE)

(* C2: write_gpio_pin_digital_state on a keyed pin whose mode is not       *)
(* DIGITAL_OUTPUT raises ValueError (the InvalidState kind), changes no    *)
(* pin and does not touch the transport.                                   *)
C2_WriteRejectedOutsideOutput ==
    [][ ( /\ last'.op = "write_gpio_pin_digital_state"
          /\ HasKey(digital_pins, last'.identifier)
          /\ digital_pins[last'.identifier].mode # "DIGITAL_OUTPUT" )
        => /\ last'.kind = "ValueError"
           /\ digital_pins' = digital_pins
           /\ last'.tx = NoTransport ]_vars

(* C2 witness: a write was rejected on a pin in DIGITAL_INPUT_PULLUP mode. *)
C2_Witness ==
    /\ last.op = "write_gpio_pin_digital_state"
    /\ last.kind = "ValueError"
    /\ digital_pins[last.identifier].mode = "DIGITAL_INPUT_PULLUP"

(* C3 (as claimed): set_gpio_pin_mode that is not stopped by the transport *)
(* returns exactly for a digital pin 2..13 with a digital mode or an       *)
(* analogue pin with ANALOGUE_INPUT, and raises                            *)
(* NotSupportedByHardwareError for every other identifier and mode.        *)
C3_SetModeRejectsWithNotSupported ==
    (last.op = "set_gpio_pin_mode" /\ last.kind # "CommunicationError") =>
        LET accepted ==
                \/ /\ last.identifier \in FIRST_DIGITAL_PIN .. (FIRST_ANALOGUE_PIN - 1)
                   /\ last.arg.m \in digital_pin_modes
                \/ /\ last.identifier >= FIRST_ANALOGUE_PIN
                   /\ last.arg.m = "ANALOGUE_INPUT"
        IN  /\ last.kind = "ok" <=> accepted
            /\ ~accepted => last.kind = "NotSupportedByHardwareError"

(* C4: an analogue read below the boundary, and a digital write, live read *)
(* or cached read at or above it, raise NotSupportedByHardwareError        *)
(* without touching the transport or the pin table.                        *)
C4_WrongPinClassRejected ==
    [][ ( \/ /\ last'.op = "read_gpio_pin_analogue_value"
             /\ last'.identifier < FIRST_ANALOGUE_PIN
          \/ /\ last'.op \in DigitalStateOps
             /\ last'.identifier >= FIRST_ANALOGUE_PIN )
        => /\ last'.kind = "NotSupportedByHardwareError"
           /\ last'.tx = NoTransport
           /\ digital_pins' = digital_pins ]_vars

(* C4 witness: an analogue read of the last digital pin was rejected.      *)
C4_Witness ==
    /\ last.op = "read_gpio_pin_analogue_value"
    /\ last.identifier = FIRST_ANALOGUE_PIN - 1
    /\ last.kind = "NotSupportedByHardwareError"

(* C5: read_gpio_pin_digital_state on a keyed pin raises ValueError in     *)
(* DIGITAL_OUTPUT mode; in an input mode it asks the transport and returns *)
(* the transport's answer (CommunicationError if none came), never the     *)
(* cached state.                                                           *)
C5_LiveReadReturnsTransportValue ==
    (last.op = "read_gpio_pin_digital_state" /\ HasKey(digital_pins, last.identifier)) =>
        IF digital_pins[last.identifier].mode = "DIGITAL_OUTPUT"
        THEN last.kind = "ValueError" /\ last.tx = NoTransport
        ELSE /\ last.tx.op = "read_digital"
             /\ last.tx.pin = last.identifier
             /\ last.tx.done => (last.kind = "ok" /\ last.ret = last.tx.answer)
             /\ ~last.tx.done => last.kind = "CommunicationError"

(* C5 witness: a live read returned true on a pin whose cached state is    *)
(* false.                                                                  *)
C5_Witness ==
    /\ last.op = "read_gpio_pin_digital_state"
    /\ last.kind = "ok"
    /\ last.ret = Bool(TRUE)
    /\ digital_pins[last.identifier].state = FALSE

(* C6: the LED calls raise ValueError (the InvalidArgument kind) for every *)
(* LED other than 0 and change nothing; for LED 0 they have the outcome of *)
(* the cached read and of the write of pin 13, so they raise ValueError    *)
(* while pin 13 is not in DIGITAL_OUTPUT mode, and get_led_state(0) right  *)
(* after a set_led_state(0, s) that returned returns s.                    *)
C6_LedIsPin13 ==
    [][ /\ (last'.op \in LedOps /\ last'.identifier # 0) =>
               /\ last'.kind = "ValueError"
               /\ last'.tx = NoTransport
               /\ digital_pins' = digital_pins
        /\ (last'.op = "get_led_state" /\ last'.identifier = 0) =>
               Outcome = get_gpio_pin_digital_state(digital_pins, 13)
        /\ (last'.op = "set_led_state" /\ last'.identifier = 0) =>
               Outcome = write_gpio_pin_digital_state(
                             digital_pins, 13, last'.arg.b, last'.tx.done)
        /\ ( /\ last'.op \in LedOps
             /\ last'.identifier = 0
             /\ digital_pins[13].mode # "DIGITAL_OUTPUT" ) =>
               last'.kind = "ValueError"
        /\ ( /\ last.op = "set_led_state" /\ last.identifier = 0 /\ last.kind = "ok"
             /\ last'.op = "get_led_state" /\ last'.identifier = 0 ) =>
               (last'.kind = "ok" /\ last'.ret = last.arg) ]_vars

(* C6 witness: get_led_state(0) returned true.                             *)
C6_Witness ==
    /\ last.op = "get_led_state"
    /\ last.identifier = 0
    /\ last.kind = "ok"
    /\ last.ret = Bool(TRUE)

(* Why the spec's taxonomy rejects a call: an unknown LED is an            *)
(* InvalidArgument, a digital-state call on a keyed pin in the wrong mode  *)
(* an InvalidState, a pin or mode the board lacks NotSupportedByHardware.  *)
Cause(call, pins) ==
    LET pin == TargetPin(call.op, call.identifier) IN
    IF call.op \in LedOps /\ call.identifier # 0
    THEN "InvalidArgument"
    ELSE IF /\ call.op \in { "write_gpio_pin_digital_state",
                             "get_gpio_pin_digital_state" } \cup LedOps
            /\ HasKey(pins, pin)
            /\ pins[pin].mode # "DIGITAL_OUTPUT"
    THEN "InvalidState"
    ELSE IF /\ call.op = "read_gpio_pin_digital_state"
            /\ HasKey(pins, pin)
            /\ pins[pin].mode = "DIGITAL_OUTPUT"
    THEN "InvalidState"
    ELSE IF call.kind = "NotSupportedByHardwareError"
    THEN "NotSupportedByHardware"
    ELSE "none"

(* C7 (as claimed): two calls in a row rejected for different causes raise *)
(* different kinds of error.                                               *)
C7_ErrorKindsDistinguishable ==
    [][ ( /\ Cause(last, digital_pins) # "none"
          /\ Cause(last', digital_pins') # "none"
          /\ Cause(last, digital_pins) # Cause(last', digital_pins') )
        => last.kind # last'.kind ]_vars

(* C9 (as claimed): the read-only calls change no pin; get_gpio_pin_mode   *)
(* returns, for a digital pin, the mode of the last set_gpio_pin_mode on   *)
(* it that returned (DIGITAL_INPUT if none did), and ANALOGUE_INPUT for an *)
(* analogue pin.                                                           *)
C9_QueriesPureAndModeIsLastSet ==
    [][ /\ last'.op \in ReadOnlyOps => digital_pins' = digital_pins
        /\ (last'.op = "get_gpio_pin_mode" /\ last'.identifier = watched) =>
               (last'.kind = "ok" /\ last'.ret = Mode(mode_set'))
        /\ ( /\ last'.op = "get_gpio_pin_mode"
             /\ last'.identifier >= FIRST_ANALOGUE_PIN ) =>
               (last'.kind = "ok" /\ last'.ret = Mode("ANALOGUE_INPUT")) ]_vars

(* A thread is in a round trip on its backend's transport. *)
InRoundTrip(t) == threads[t].pc = "roundtrip"

(* C8: a thread in a transport round trip holds the lock of the backend it *)
(* is calling, so no two round trips on one backend overlap; and a thread  *)
(* waiting for a lock waits only for a round trip on the same backend, so  *)
(* calls on different backends never block each other.                     *)
C8_RoundTripsSerializedPerBackend ==
    /\ \A t \in Threads :
         InRoundTrip(t) => locks[LockOf(threads[t].backend)] = t
    /\ \A t, u \in Threads :
         (t # u /\ InRoundTrip(t) /\ InRoundTrip(u)) =>
             threads[t].backend # threads[u].backend
    /\ \A t \in Threads :
         (threads[t].pc = "acquire" /\ locks[LockOf(threads[t].backend)] # 0) =>
             LET holder == locks[LockOf(threads[t].backend)] IN
             InRoundTrip(holder) /\ threads[holder].backend = threads[t].backend

(* C8 witness: a write-through and a live read are in their round trips at *)
(* the same time, on two different backends.                               *)
C8_Witness ==
    \E t, u \in Threads :
        /\ InRoundTrip(t) /\ threads[t].op = "write_gpio_pin_digital_state"
        /\ InRoundTrip(u) /\ threads[u].op = "read_gpio_pin_digital_state"
        /\ threads[t].backend # threads[u].backend

(* The descriptors of the last scan whose (vendor_id, product_id) is in    *)
(* the identity signature set.                                             *)
Matching == { i \in 1 .. Len(scanned) : <<scanned[i].vid, scanned[i].pid>> \in USB_IDS }

BoardsOnlyForMatching ==
    \A b \in discovered :
        \E i \in Matching : /\ scanned[i].serial_number = b.serial
                            /\ scanned[i].device = b.serial_port

(* C10 (as claimed): discover returns boards for the matching descriptors  *)
(* only, the group's length is the number of matching descriptors, and a   *)
(* lookup by the serial number of a matching descriptor succeeds (read     *)
(* here for the descriptors that carry a serial number).                   *)
C10_OneBoardPerMatchingDescriptor ==
    /\ BoardsOnlyForMatching
    /\ asked.op = "length" => asked.n = Cardinality(Matching)
    /\ ( /\ asked.op = "lookup_by_serial"
         /\ asked.key.type = "str"
         /\ \E i \in Matching : scanned[i].serial_number = asked.key ) =>
           asked.kind = "ok"

(* C10 (amended): discover returns boards for the matching descriptors     *)
(* only, the group's length is the number of distinct serial numbers among *)
(* the matching descriptors, and a lookup by the serial number of a        *)
(* matching descriptor that carries one (a string) succeeds and returns a  *)
(* discovered board with that serial number.                               *)
C10_OneBoardPerMatchingSerial ==
    /\ BoardsOnlyForMatching
    /\ DOMAIN boards = { scanned[i].serial_number : i \in Matching }
    /\ asked.op = "length" =>
           asked.n = Cardinality({ scanned[i].serial_number : i \in Matching })
    /\ ( /\ asked.op = "lookup_by_serial"
         /\ asked.key.type = "str"
         /\ \E i \in Matching : scanned[i].serial_number = asked.key ) =>
           /\ asked.kind = "ok"
           /\ asked.board.serial = asked.key
           /\ asked.board \in discovered

(* C10 witness: the length of the group was asked after a scan of two      *)
(* matching descriptors with different serial numbers and it is 2.         *)
C10_Witness ==
    /\ asked.op = "length"
    /\ asked.n = 2
    /\ Cardinality(Matching) = 2
    /\ \A i \in Matching : scanned[i].serial_number.type = "str"

(* C11: discover constructs a board and its backend once per device        *)
(* identity: for every serial number of the returned set exactly one       *)
(* backend was constructed, the set holds no two boards with the same      *)
(* serial number, and neither does the mapping of the group (the count is  *)
(* read for the identities that are serial numbers, not absent ones).      *)
C11_ConstructedOncePerIdentity ==
    /\ \A a, b \in discovered : a.serial = b.serial => a = b
    /\ \A serial \in DOMAIN boards : boards[serial].serial = serial
    /\ \A b \in discovered :
         b.serial.type = "str" =>
         Cardinality({ i \in Constructed(scanned) :
                         scanned[i].serial_number = b.serial }) = 1

(* C12: every singular() step leaves the mapping unchanged; with exactly   *)
(* one board in the mapping it returns that board, which is the board      *)
(* discovery made for a matching port; with none or several it fails with  *)
(* CommunicationError and returns no board.                                *)
C12_SingularSoleBoardOrError ==
    [][asked'.op = "singular" =>
         /\ boards' = boards
         /\ Cardinality(DOMAIN boards) = 1 =>
                /\ asked'.kind = "ok"
                /\ \A serial \in DOMAIN boards : asked'.board = boards[serial]
                /\ asked'.board \in discovered
                /\ \E i \in Matching : scanned[i].device = asked'.board.serial_port
         /\ Cardinality(DOMAIN boards) # 1 =>
                /\ asked'.kind = "CommunicationError"
                /\ asked'.board = NoBoard]_vars

(* C12 witness: singular() has failed on a mapping of two boards. *)
C12_Witness ==
    /\ asked.op = "singular"
    /\ asked.kind = "CommunicationError"
    /\ Cardinality(DOMAIN boards) = 2

(* C13: every update_boards() step leaves the mapping equal to the result  *)
(* of the discovery it ran: its keys are the serial numbers of the ports   *)
(* that match now, every board in it is an object that discovery made,     *)
(* none is an object of the mapping before the refresh; the board the      *)
(* caller holds is not touched, and reading its serial number afterwards   *)
(* does not raise; a lookup returns an object of the latest discovery.     *)
C13_RefreshReplacesMappingWithFreshBoards ==
    [][/\ generation' # generation =>
            /\ discovered' = discover(scanned', generation')
            /\ DOMAIN boards' = { b.serial : b \in discovered' }
            /\ DOMAIN boards' =
                 { scanned'[i].serial_number :
                     i \in { j \in 1 .. Len(scanned') :
                               <<scanned'[j].vid, scanned'[j].pid>> \in USB_IDS } }
            /\ \A serial \in DOMAIN boards' :
                 /\ boards'[serial] \in discovered'
                 /\ boards'[serial].serial = serial
                 /\ \A old \in DOMAIN boards :
                      boards'[serial].object # boards[old].object
            /\ held' = held
       /\ (asked'.op = "lookup_by_serial" /\ asked'.kind = "ok") =>
            /\ asked'.board = boards'[asked'.key]
            /\ asked'.board.object[1] = generation'
       /\ asked'.op = "serial" =>
            /\ asked'.kind = "ok"
            /\ asked'.key = held.serial
            /\ held' = held]_vars

(* C13 witness: the caller has read the serial number of a board it got    *)
(* before a refresh, and the mapping now holds another object for that     *)
(* serial number.                                                          *)
C13_Witness ==
    /\ asked.op = "serial"
    /\ held.serial \in DOMAIN boards
    /\ boards[held.serial].object # held.object
    /\ held.object[1] < generation

StrictlyAscending(items) ==
    \A i, j \in 1 .. Len(items) : i < j => Rank(items[i].serial) < Rank(items[j].serial)

(* C14: an iterator obtained from a group whose serial numbers are strings *)
(* goes through the boards of the mapping, each once, in strictly          *)
(* ascending order of serial number; every next() yields the board at the  *)
(* iterator's own position and moves that iterator by one, or stops when   *)
(* all were yielded; no step on one iterator changes the other.            *)
C14_SortedIndependentIterators ==
    [][\A c \in Iterators :
         /\ (asked'.op = "iter" /\ asked'.n = c /\ asked'.kind = "ok") =>
              /\ cursors'[c].open /\ cursors'[c].pos = 0
              /\ Len(cursors'[c].items) = Cardinality(DOMAIN boards)
              /\ { cursors'[c].items[i] : i \in 1 .. Len(cursors'[c].items) } =
                   { boards[serial] : serial \in DOMAIN boards }
              /\ (\A serial \in DOMAIN boards : serial.type = "str") =>
                     StrictlyAscending(cursors'[c].items)
         /\ (asked'.op = "iter" /\ asked'.n = c) =>
              /\ asked'.kind = "ok" <=> Comparable(boards)
              /\ \A d \in Iterators \ {c} : cursors'[d] = cursors[d]
         /\ (asked'.op = "next" /\ asked'.n = c) =>
              /\ cursors'[c].items = cursors[c].items
              /\ \A d \in Iterators \ {c} : cursors'[d] = cursors[d]
              /\ IF cursors[c].pos < Len(cursors[c].items)
                 THEN /\ asked'.kind = "ok"
                      /\ asked'.board = cursors[c].items[cursors[c].pos + 1]
                      /\ cursors'[c].pos = cursors[c].pos + 1
                 ELSE /\ asked'.kind = "StopIteration"
                      /\ cursors'[c].pos = cursors[c].pos]_vars

(* C14 witness: two iterators over a mapping of two boards, advanced at    *)
(* different rates: one has yielded both boards, the other the first.      *)
C14_Witness ==
    /\ asked.op = "next"
    /\ Cardinality(DOMAIN boards) = 2
    /\ cursors[1].open /\ cursors[1].pos = 2
    /\ cursors[2].open /\ cursors[2].pos = 1
    /\ cursors[1].items = cursors[2].items

(* C15: while make_safe() runs no board's safety operation is invoked more *)
(* than once and nothing is reported; when it reports, with or without     *)
(* failures, the operation was invoked exactly once on every board of the  *)
(* group, the boards it failed on included.                                *)
C15_MakeSafeAttemptsEveryBoard ==
    /\ \A serial \in DOMAIN safety.attempts : safety.attempts[serial] <= 1
    /\ safety.running => (asked.op = "make_safe" /\ asked.kind = "running")
    /\ (asked.op = "make_safe" /\ asked.kind # "running") =>
         /\ DOMAIN safety.attempts = DOMAIN boards
         /\ \A serial \in DOMAIN boards : safety.attempts[serial] = 1
         /\ asked.n = Cardinality(safety.failed)
         /\ asked.kind = "failed" <=> safety.failed # {}

(* C15 witness: make_safe() on two boards has reported a failure on one of *)
(* them after the operation was invoked on both.                           *)
C15_Witness ==
    /\ asked.op = "make_safe"
    /\ asked.kind = "failed"
    /\ asked.n = 1
    /\ Cardinality(DOMAIN boards) = 2
    /\ \A serial \in DOMAIN boards : safety.attempts[serial] = 1

(* C16: a lookup or a contains() never changes the mapping; a lookup with  *)
(* a key that is not a string fails with TypeError whatever the mapping    *)
(* holds; a lookup with a string succeeds exactly when contains() is true  *)
(* of it, which is when a matching port of the last discovery carries it   *)
(* as its serial number, and fails with KeyError (the NotFound kind)       *)
(* otherwise, the empty string included.                                   *)
C16_LookupKeyKinds ==
    [][/\ asked'.op \in {"lookup_by_serial", "contains"} => boards' = boards
       /\ asked'.op = "contains" =>
            (asked'.n = 1) = contains(boards, asked'.key)
       /\ (asked'.op = "lookup_by_serial" /\ asked'.key.type # "str") =>
            asked'.kind = "TypeError"
       /\ (asked'.op = "lookup_by_serial" /\ asked'.key.type = "str") =>
            /\ asked'.kind \in {"ok", "KeyError"}
            /\ (asked'.kind = "ok") = contains(boards, asked'.key)
            /\ (asked'.kind = "ok") =
                 (\E i \in Matching : scanned[i].serial_number = asked'.key)
            /\ asked'.kind = "ok" => asked'.board.serial = asked'.key]_vars

(* C16 witness: a lookup with the empty string has failed with KeyError on *)
(* a mapping that holds a board.                                           *)
C16_Witness ==
    /\ asked.op = "lookup_by_serial"
    /\ asked.key = Str("")
    /\ asked.kind = "KeyError"
    /\ DOMAIN boards # {}

C18_CacheEqualsLastCompletedPush ==
    /\ ( /\ last.op \in {"set_gpio_pin_mode", "write_gpio_pin_digital_state",
                         "set_led_state"}
         /\ last.kind = "ok"
         /\ TargetPin(last.op, last.identifier) \in DOMAIN digital_pins ) =>
           /\ last.tx.op = "update"
           /\ last.tx.pin = TargetPin(last.op, last.identifier)
           /\ last.tx.done
    /\ last.kind \in {"NotSupportedByHardwareError", "ValueError", "KeyError"} =>
           last.tx = NoTransport
    /\ digital_pins[watched] = pushed_ok

(* C19: a set_gpio_pin_mode of a digital pin that returned changed the     *)
(* mode of that pin and nothing else: the pin keeps its cached state, the  *)
(* other pins their mode and state, and the push carries the new mode with *)
(* the state the pin had; after every step the table has the keys 2 .. 13  *)
(* and every mode is one of the three digital modes.  So a state written   *)
(* in DIGITAL_OUTPUT is still cached, and is what is pushed, when the pin  *)
(* comes back to DIGITAL_OUTPUT through other modes.                       *)
C19_SetModeChangesOnlyTheMode ==
    [][/\ ( /\ last'.op = "set_gpio_pin_mode"
            /\ last'.kind = "ok"
            /\ last'.identifier < FIRST_ANALOGUE_PIN ) =>
              /\ HasKey(digital_pins, last'.identifier)
              /\ digital_pins' =
                   [digital_pins EXCEPT ![last'.identifier].mode = last'.arg.m]
              /\ digital_pins'[last'.identifier].state =
                   digital_pins[last'.identifier].state
              /\ last'.tx.op = "update"
              /\ last'.tx.pin = last'.identifier
              /\ last'.tx.mode = last'.arg.m
              /\ last'.tx.state = digital_pins[last'.identifier].state
       /\ DOMAIN digital_pins' = FIRST_DIGITAL_PIN .. (FIRST_ANALOGUE_PIN - 1)
       /\ \A pin \in DOMAIN digital_pins' :
            digital_pins'[pin].mode \in digital_pin_modes]_vars

(* C19 witness: the LED pin, written true as an output, was set to         *)
(* DIGITAL_INPUT: its cached state is still true and went out with the     *)
(* push of the new mode.                                                   *)
C19_Witness ==
    /\ last.op = "set_gpio_pin_mode"
    /\ last.kind = "ok"
    /\ last.identifier = LED_PIN
    /\ last.arg = Mode("DIGITAL_INPUT")
    /\ digital_pins[LED_PIN] = DigitalPinData("DIGITAL_INPUT", TRUE)
    /\ last.tx.state = TRUE

(* A thread inside write_gpio_pin_digital_state makes the step from pc to  *)
(* the position after it.                                                  *)
WriteStep(t, from, to) ==
    /\ threads[t].op = "write_gpio_pin_digital_state"
    /\ threads[t].pc = from
    /\ threads'[t].pc = to

(* C20 (as claimed): write_gpio_pin_digital_state assigns the cached state *)
(* of a pin, and starts the push of the pin, only at a moment when the     *)
(* cached mode of the pin is DIGITAL_OUTPUT, whatever the other threads do *)
(* on the same backend.                                                    *)
C20_WriteAtomicWithModeCheck ==
    [][\A t \in Threads :
         (WriteStep(t, "store", "acquire") \/ WriteStep(t, "acquire", "roundtrip")) =>
             backend_pins[threads[t].backend][threads[t].identifier].mode
                 = "DIGITAL_OUTPUT"]_vars

====
